---------------------------- MODULE Spec2Model ----------------------------
(***************************************************************************)
(* A model of the AWS MCP servers of aws-mcp-server:                       *)
(*   aws_mcp_server.py       the stdio server (class AWSMCPServer)         *)
(*   aws_mcp_http_server.py  the HTTP server (class AWSMCPHTTPServer): its *)
(*                           FastMCP tools and its POST / handler          *)
(* Command texts, argument vectors and replies are strings, handled        *)
(* character by character as the Python code handles them.                 *)
(***************************************************************************)
EXTENDS Integers, Sequences, FiniteSets, TLC

VARIABLES
    read_only_prefixes,  \* self.read_only_prefixes, set by __init__
    aws_profiles,        \* self.aws_profiles, set by __init__
    BOTO3_AVAILABLE,     \* the module global of aws_mcp_server.py
    stage,               \* how far the start of each server has come
    aws_on_path,         \* whether the aws binary can be found on PATH
    cls_command,         \* argument of a direct _is_read_only_command call
    cls_server,          \* the class whose classifier is called
    cls_result,          \* what that call returned (None before the call)
    cls_calls,           \* classifier calls made so far
    pc,                  \* position of the request being served
    entry,               \* entry point that received the request
    name,                \* tool name of the request
    arguments,           \* its arguments: command, profile, region
    full_command,        \* argument vector handed to subprocess.run
    child,               \* the child process: none, running, exited, killed
    launched,            \* calls of subprocess.run made for this request
    elapsed,             \* seconds since the child was launched
    result,              \* CompletedProcess returned by subprocess.run
    exec_result,         \* (success, output) returned by execute_aws_command
    reply,               \* text returned to the caller
    live_children,       \* child processes of the server that are alive
    open_pipes,          \* pipe ends the server holds open to its children
    served,              \* whether an earlier request has been served
    ops,                 \* operations issued concurrently to one server
    loop_thread,         \* operation whose code occupies the event loop's thread
    waited               \* seconds that operation's subprocess.run has waited

vars == <<read_only_prefixes, aws_profiles, BOTO3_AVAILABLE, stage,
          aws_on_path, cls_command, cls_server,
          cls_result, cls_calls, pc, entry,
          name, arguments, full_command, child, launched, elapsed,
          result, exec_result, reply, live_children, open_pipes, served,
          ops, loop_thread, waited>>

loopVars == <<ops, loop_thread, waited>>

\* what the start of a server sets besides read_only_prefixes
startVars == <<aws_profiles, BOTO3_AVAILABLE, stage>>

clsVars == <<cls_command, cls_server, cls_result, cls_calls>>
reqVars == <<pc, entry, name, arguments, full_command, child, launched,
             elapsed, result, exec_result, reply, live_children, open_pipes,
             served>>

osVars == <<live_children, open_pipes>>

\* An optional value is a sequence of at most one element: None is Python's
\* None (and "not set yet" for a variable), Some(x) the value x.
None == <<>>
Some(x) == <<x>>
Val(o) == o[1]

---------------------------------------------------------------------------
(* Python string primitives *)

\* str.isspace characters that a command text can carry
Whitespace == {" ", "\t", "\n", "\r", "\f"}

UpperLetters == "ABCDEFGHIJKLMNOPQRSTUVWXYZ"
LowerLetters == "abcdefghijklmnopqrstuvwxyz"

CharAt(s, i) == SubSeq(s, i, i)

ToLowerMap ==
    [c \in {CharAt(UpperLetters, i) : i \in 1..Len(UpperLetters)} |->
        LET i == CHOOSE j \in 1..Len(UpperLetters) : CharAt(UpperLetters, j) = c
        IN  CharAt(LowerLetters, i)]

ToUpperMap ==
    [c \in {CharAt(LowerLetters, i) : i \in 1..Len(LowerLetters)} |->
        LET i == CHOOSE j \in 1..Len(LowerLetters) : CharAt(LowerLetters, j) = c
        IN  CharAt(UpperLetters, i)]

RECURSIVE lower(_)
\* str.lower()
lower(s) ==
    IF s = "" THEN ""
    ELSE (IF Head(s) \in DOMAIN ToLowerMap THEN ToLowerMap[Head(s)] ELSE Head(s))
         \o lower(Tail(s))

RECURSIVE upper(_)
\* str.upper()
upper(s) ==
    IF s = "" THEN ""
    ELSE (IF Head(s) \in DOMAIN ToUpperMap THEN ToUpperMap[Head(s)] ELSE Head(s))
         \o upper(Tail(s))

RECURSIVE lstrip(_)
lstrip(s) == IF s # "" /\ Head(s) \in Whitespace THEN lstrip(Tail(s)) ELSE s

RECURSIVE rstrip(_)
rstrip(s) ==
    IF s # "" /\ CharAt(s, Len(s)) \in Whitespace
    THEN rstrip(SubSeq(s, 1, Len(s) - 1))
    ELSE s

\* str.strip()
strip(s) == rstrip(lstrip(s))

\* str.startswith(prefix)
startswith(s, prefix) ==
    Len(s) >= Len(prefix) /\ SubSeq(s, 1, Len(prefix)) = prefix

\* s[n:]
SliceFrom(s, n) == SubSeq(s, n + 1, Len(s))

RECURSIVE SplitRec(_, _, _, _)
SplitRec(s, i, cur, out) ==
    IF i > Len(s)
    THEN (IF cur = "" THEN out ELSE Append(out, cur))
    ELSE IF CharAt(s, i) \in Whitespace
         THEN SplitRec(s, i + 1, "", IF cur = "" THEN out ELSE Append(out, cur))
         ELSE SplitRec(s, i + 1, cur \o CharAt(s, i), out)

\* str.split() with no separator: runs of whitespace separate, no empty items
split(s) == SplitRec(s, 1, "", <<>>)

\* sub in s
Contains(s, sub) ==
    \E i \in 1..(Len(s) - Len(sub) + 1) : SubSeq(s, i, i + Len(sub) - 1) = sub

RECURSIVE replace(_, _, _)
\* str.replace(old, new), old not empty
replace(s, old, new) ==
    IF s = "" THEN ""
    ELSE IF startswith(s, old)
    THEN new \o replace(SliceFrom(s, Len(old)), old, new)
    ELSE CharAt(s, 1) \o replace(Tail(s), old, new)

\* str.split(sep) for a separator of one character: the pieces between
\* the places of the separator
split_on(s, sep) ==
    LET places == {i \in 1..Len(s) : CharAt(s, i) = sep}
        n == Cardinality(places)
        place(k) == IF k = 0 THEN 0
                    ELSE IF k = n + 1 THEN Len(s) + 1
                    ELSE CHOOSE p \in places : Cardinality({q \in places : q < p}) = k - 1
    IN  [k \in 1..(n + 1) |-> SubSeq(s, place(k - 1) + 1, place(k) - 1)]

RECURSIVE join(_, _)
\* sep.join(items)
join(items, sep) ==
    IF items = <<>> THEN ""
    ELSE IF Len(items) = 1 THEN items[1]
    ELSE items[1] \o sep \o join(Tail(items), sep)

\* Python truthiness of an optional string argument
Truthy(v) == v # None /\ v # Some("")

---------------------------------------------------------------------------
(* shlex.split(s): posix mode, whitespace_split, no comment characters *)

ShlexWhitespace == {" ", "\t", "\r", "\n"}
ShlexQuotes == {"'", "\""}
ShlexEscape == "\\"
ShlexEscapedQuotes == {"\""}

\* what one token contributes to the list: nothing when it is empty and
\* was not quoted
ShlexEmit(out, token, quoted) ==
    IF token # "" \/ quoted THEN Append(out, token) ELSE out

RECURSIVE ShlexRec(_, _, _, _, _, _, _)
\* shlex.read_token, called until the text is used up; state is " "
\* between tokens, "a" inside one, a quote inside quotes, the escape
\* character after one
ShlexRec(s, i, state, escapedstate, token, quoted, out) ==
    IF i > Len(s)
    THEN IF state \in ShlexQuotes
         THEN [ok |-> FALSE, parts |-> <<>>, error |-> "No closing quotation"]
         ELSE IF state = ShlexEscape
         THEN [ok |-> FALSE, parts |-> <<>>, error |-> "No escaped character"]
         ELSE [ok |-> TRUE, parts |-> ShlexEmit(out, token, quoted), error |-> ""]
    ELSE
    LET c == CharAt(s, i)
    IN  IF state = " "
        THEN IF c \in ShlexWhitespace
             THEN ShlexRec(s, i + 1, " ", escapedstate, "", FALSE, out)
             ELSE IF c = ShlexEscape
             THEN ShlexRec(s, i + 1, c, "a", token, quoted, out)
             ELSE IF c \in ShlexQuotes
             THEN ShlexRec(s, i + 1, c, escapedstate, token, TRUE, out)
             ELSE ShlexRec(s, i + 1, "a", escapedstate, c, quoted, out)
        ELSE IF state \in ShlexQuotes
        THEN IF c = state
             THEN ShlexRec(s, i + 1, "a", escapedstate, token, quoted, out)
             ELSE IF c = ShlexEscape /\ state \in ShlexEscapedQuotes
             THEN ShlexRec(s, i + 1, c, state, token, quoted, out)
             ELSE ShlexRec(s, i + 1, state, escapedstate, token \o c, quoted, out)
        ELSE IF state = ShlexEscape
        THEN LET kept == IF /\ escapedstate \in ShlexQuotes
                            /\ c # state
                            /\ c # escapedstate
                         THEN token \o state ELSE token
             IN  ShlexRec(s, i + 1, escapedstate, escapedstate, kept \o c, quoted, out)
        ELSE \* state = "a"
             IF c \in ShlexWhitespace
             THEN ShlexRec(s, i + 1, " ", escapedstate, "", FALSE,
                           ShlexEmit(out, token, quoted))
             ELSE IF c \in ShlexQuotes
             THEN ShlexRec(s, i + 1, c, escapedstate, token, TRUE, out)
             ELSE IF c = ShlexEscape
             THEN ShlexRec(s, i + 1, c, "a", token, quoted, out)
             ELSE ShlexRec(s, i + 1, "a", escapedstate, token \o c, quoted, out)

\* shlex.split(s): the tokens, or the ValueError it raises
shlex_split(s) == ShlexRec(s, 1, " ", " ", "", FALSE, <<>>)

---------------------------------------------------------------------------
(* The classifier *)

\* AWSMCPServer._get_read_only_prefixes
_get_read_only_prefixes ==
    << "describe", "list", "get", "show", "view", "ls", "head",
       "ec2 describe", "s3 ls", "s3 head", "s3api list", "s3api get",
       "iam list", "iam get", "rds describe", "lambda list", "lambda get",
       "dynamodb describe", "dynamodb list", "cloudformation describe",
       "cloudformation list", "sns list", "sqs list", "sqs get",
       "cloudwatch describe", "cloudwatch list", "cloudwatch get",
       "logs describe", "logs filter", "sts get", "sts assume",
       "route53 list", "route53 get", "ecr describe", "ecr list",
       "ecs describe", "ecs list", "elasticache describe",
       "autoscaling describe", "elb describe", "elbv2 describe" >>

\* read_verbs with head and view added
read_verbs_with_head_view ==
    <<"describe", "list", "get", "show", "ls", "head", "view">>

\* read_verbs of _is_read_only_command
read_verbs == <<"describe", "list", "get", "show", "ls">>

\* AWSMCPHTTPServer._get_read_only_prefixes
http_get_read_only_prefixes ==
    << "describe", "list", "get", "show", "view", "ls", "head",
       "ec2 describe", "s3 ls", "s3 head", "s3api list", "s3api get",
       "iam list", "iam get", "rds describe", "lambda list", "lambda get",
       "dynamodb describe", "dynamodb list", "cloudformation describe",
       "cloudformation list", "sns list", "sqs list", "sqs get",
       "cloudwatch describe", "cloudwatch list", "cloudwatch get",
       "logs describe", "logs filter", "sts get", "sts assume",
       "route53 list", "route53 get", "ecr describe", "ecr list",
       "ecs describe", "ecs list", "elasticache describe",
       "autoscaling describe", "elb describe", "elbv2 describe" >>

\* Normalize without the lower-casing
NormalizeCaseSensitive(command) ==
    LET cmd_lower == strip(command)
    IN  IF startswith(cmd_lower, "aws ")
        THEN strip(SliceFrom(cmd_lower, 4))
        ELSE cmd_lower

\* Normalize that trims only after the invocation name is removed
NormalizeUntrimmed(command) ==
    LET cmd_lower == lower(command)
    IN  IF startswith(cmd_lower, "aws ")
        THEN strip(SliceFrom(cmd_lower, 4))
        ELSE cmd_lower

\* cmd_lower after "Remove 'aws' prefix if present"
Normalize(command) ==
    LET cmd_lower == strip(lower(command))
    IN  IF startswith(cmd_lower, "aws ")
        THEN strip(SliceFrom(cmd_lower, 4))
        ELSE cmd_lower

\* "for prefix in self.read_only_prefixes: if cmd_lower.startswith(prefix)"
MatchesPrefix(prefixes, cmd_lower) ==
    \E i \in 1..Len(prefixes) : startswith(cmd_lower, prefixes[i])

\* MatchesVerb looking at every token after the first
MatchesVerbAnyToken(cmd_lower) ==
    LET parts == split(cmd_lower)
    IN  \E k \in 2..Len(parts) :
            \E i \in 1..Len(read_verbs) : startswith(parts[k], read_verbs[i])

\* MatchesVerb comparing the operation with the verbs for equality
MatchesVerbExact(cmd_lower) ==
    LET parts == split(cmd_lower)
    IN  /\ Len(parts) >= 2
        /\ \E i \in 1..Len(read_verbs) : parts[2] = read_verbs[i]

\* "if len(parts) >= 2: ... any(operation.startswith(verb) ...)"
MatchesVerb(cmd_lower) ==
    LET parts == split(cmd_lower)
    IN  /\ Len(parts) >= 2
        /\ \E i \in 1..Len(read_verbs) : startswith(parts[2], read_verbs[i])

\* AWSMCPServer._is_read_only_command
_is_read_only_command(command) ==
    LET cmd_lower == Normalize(command)
    IN  IF MatchesPrefix(read_only_prefixes.stdio, cmd_lower) THEN TRUE
        ELSE IF MatchesVerb(cmd_lower) THEN TRUE
        ELSE FALSE

\* the HTTP classifier answering True for whatever it does not recognize
http_is_read_only_command_fail_open(command) ==
    LET cmd_lower == Normalize(command)
    IN  IF MatchesPrefix(read_only_prefixes.http, cmd_lower) THEN TRUE
        ELSE IF MatchesVerb(cmd_lower) THEN TRUE
        ELSE TRUE

\* AWSMCPHTTPServer._is_read_only_command
http_is_read_only_command(command) ==
    LET cmd_lower == Normalize(command)
    IN  IF MatchesPrefix(read_only_prefixes.http, cmd_lower) THEN TRUE
        ELSE IF MatchesVerb(cmd_lower) THEN TRUE
        ELSE FALSE

---------------------------------------------------------------------------
(* Command texts the model draws its inputs from *)

\* most tokens of a generated command text
MaxTokens == 3

\* tokens of the generated texts handed to the classifier
ClsWords ==
    { "aws", "s3", "ls", "get-object", "head-object", "view", "mb" }

\* whitespace before and after the tokens, and between them
Pads == { <<"", "">>, <<" ", "">>, <<"\t", " ">> }
Gaps == {" ", "\t"}

RECURSIVE Join(_, _)
Join(toks, gap) ==
    IF toks = <<>> THEN ""
    ELSE IF Len(toks) = 1 THEN toks[1]
    ELSE toks[1] \o gap \o Join(Tail(toks), gap)

TokenSeqs(words, n) == UNION {[1..k -> words] : k \in 0..n}

Plain(words, n) ==
    {p[1] \o Join(ts, g) \o p[2] :
        p \in Pads, ts \in TokenSeqs(words, n), g \in Gaps}

\* the texts of simple_test.py and of the specification's examples, and
\* texts for the verbs that ClsWords leaves out
ExampleTexts ==
    { "s3 ls", "ec2 describe-instances", "iam list-users",
      "s3 mb s3://test-bucket", "ec2 create-instance", "iam create-user",
      "sts get-caller-identity", "s3 cp file.txt s3://bucket/",
      "x getaway-resource", "s3api head-object", "logs filter-log-events",
      "sts assume-role", "Aws S3 Ls", "aws", "aws ", "awss3 ls",
      "DESCRIBE-instances", "aws list-buckets", " show ", "kms show-x",
      "aws\tdescribe-instances", "s3  ls", "aws  view  x", "s3 \t mb",
      "s3 head x", "s3  head x", "s3 'ls'", "aws s3api head-object" }

ClsTexts ==
    LET plain == Plain(ClsWords, MaxTokens)
    IN  plain \cup {upper(t) : t \in plain} \cup ExampleTexts

Servers == {"stdio", "http"}

---------------------------------------------------------------------------
(* The profiles of ~/.aws/config.  The file is what ConfigParser makes of
   it: its sections in order, each with the options the servers read; an
   option that the section does not have is None.  A dict is the sequence
   of its items in insertion order. *)

Section(section, region, output, role_arn) ==
    [section |-> section,
     options |-> [region |-> region, output |-> output, role_arn |-> role_arn]]

\* ~/.aws/config with a default section and named profiles: with region and
\* role, with a role only, with no option, with an empty region
ExampleConfig ==
    Some(<< Section("default", Some("us-east-1"), Some("json"), None),
            Section("profile dev", Some("eu-west-1"), None, Some("arn:dev")),
            Section("profile ops", None, None, Some("arn:ops")),
            Section("profile bare", None, None, None),
            Section("profile lab", Some(""), Some("text"), None) >>)

\* no file, an empty file, one profile, the example, and a file in which
\* two sections give the same profile name
ConfigFiles ==
    { None,
      Some(<<>>),
      Some(<< Section("profile dev", Some("eu-west-1"), None, None) >>),
      ExampleConfig,
      Some(<< Section("default", Some("us-east-1"), None, None),
              Section("profile default", None, None, Some("arn:dev")) >>) }

\* profiles[profile_name] = profile_info
dict_set(d, k, v) ==
    IF \E i \in DOMAIN d : d[i].name = k
    THEN [i \in DOMAIN d |-> IF d[i].name = k THEN [name |-> k, info |-> v] ELSE d[i]]
    ELSE Append(d, [name |-> k, info |-> v])

\* "section.replace("profile ", "") if section.startswith("profile ") else
\* section"
profile_name(section) ==
    IF startswith(section, "profile ") THEN replace(section, "profile ", "")
    ELSE section

RECURSIVE LoadSections(_, _)
\* "for section in config.sections(): ..."
LoadSections(sections, profiles) ==
    IF sections = <<>> THEN profiles
    ELSE LoadSections(Tail(sections),
                      dict_set(profiles, profile_name(Head(sections).section),
                               Head(sections).options))

\* AWSMCPServer._load_aws_profiles
_load_aws_profiles(config) ==
    IF config = None THEN <<>> ELSE LoadSections(Val(config), <<>>)

\* AWSMCPHTTPServer._load_aws_profiles
http_load_aws_profiles(config) ==
    IF config = None THEN <<>> ELSE LoadSections(Val(config), <<>>)

\* a line that shows the region of every profile, given or not
profile_str_region_always(profile, info) ==
    "Profile: " \o profile
    \o " (region: " \o (IF info.region = None THEN "" ELSE Val(info.region)) \o ")"
    \o (IF Truthy(info.role_arn) THEN " [role: " \o Val(info.role_arn) \o "]" ELSE "")

\* the line of one profile, as each of the three list_aws_profiles builds it
profile_str(profile, info) ==
    "Profile: " \o profile
    \o (IF Truthy(info.region) THEN " (region: " \o Val(info.region) \o ")" ELSE "")
    \o (IF Truthy(info.role_arn) THEN " [role: " \o Val(info.role_arn) \o "]" ELSE "")

\* "for profile, info in self.aws_profiles.items(): ... profiles_info.append"
profiles_info(profiles) ==
    [i \in DOMAIN profiles |-> profile_str(profiles[i].name, profiles[i].info)]

\* what list_aws_profiles of the stdio handler returns
list_aws_profiles_text(profiles) ==
    IF profiles_info(profiles) # <<>>
    THEN "Available AWS profiles:\n" \o join(profiles_info(profiles), "\n")
    ELSE "No AWS profiles found in ~/.aws/config"

\* what the FastMCP tool list_aws_profiles returns
fastmcp_list_aws_profiles_text(profiles) ==
    IF profiles_info(profiles) # <<>>
    THEN "Available AWS profiles:\n" \o join(profiles_info(profiles), "\n")
    ELSE "No AWS profiles found in ~/.aws/config"

\* what list_aws_profiles of the POST / handler returns
post_list_aws_profiles_text(profiles) ==
    IF profiles_info(profiles) # <<>>
    THEN "Available AWS profiles:\n" \o join(profiles_info(profiles), "\n")
    ELSE "No AWS profiles found"

---------------------------------------------------------------------------
(* Direct calls of the classifier, as simple_test.py makes them *)

IdleRequest ==
    /\ pc = "idle"
    /\ entry = "none"
    /\ name = "none"
    /\ arguments = None
    /\ full_command = None
    /\ child = "none"
    /\ launched = 0
    /\ elapsed = 0
    /\ result = None
    /\ exec_result = None
    /\ reply = None
    /\ live_children = 0
    /\ open_pipes = 0
    /\ served = FALSE

\* most operations issued concurrently
MaxOps == 3

OpIds == 1..MaxOps

\* no operation has been issued and the event loop is free
IdleLoop ==
    /\ ops = [i \in OpIds |-> [kind |-> "none", state |-> "not_issued"]]
    /\ loop_thread = 0
    /\ waited = 0

\* AWSMCPServer.__init__ and AWSMCPHTTPServer.__init__
InitServers ==
    /\ read_only_prefixes =
        [stdio |-> _get_read_only_prefixes, http |-> http_get_read_only_prefixes]
    /\ aws_profiles =
        [stdio |-> _load_aws_profiles(ExampleConfig),
         http |-> http_load_aws_profiles(ExampleConfig)]
    /\ BOTO3_AVAILABLE = Some(TRUE)
    /\ stage = [stdio |-> "serving", http |-> "serving"]

\* most classifier calls in a row on one server
MaxCalls == 2

InitClassify ==
    /\ InitServers
    /\ aws_on_path = FALSE
    /\ cls_command \in ClsTexts
    /\ cls_server \in Servers
    /\ cls_result = None
    /\ cls_calls = 0
    /\ IdleRequest
    /\ IdleLoop

\* server._is_read_only_command(command)
Classify ==
    /\ cls_result = None
    /\ cls_result' = Some(IF cls_server = "stdio"
                          THEN _is_read_only_command(cls_command)
                          ELSE http_is_read_only_command(cls_command))
    /\ cls_calls' = cls_calls + 1
    /\ UNCHANGED <<read_only_prefixes, startVars, aws_on_path, loopVars, cls_command,
                   cls_server, reqVars>>

\* the caller goes on to its next test command
NextCommand ==
    /\ cls_result # None
    /\ cls_command \in ExampleTexts
    /\ cls_calls < MaxCalls
    /\ cls_command' \in ExampleTexts
    /\ cls_result' = None
    /\ UNCHANGED <<read_only_prefixes, startVars, aws_on_path, loopVars, cls_server,
                   cls_calls, reqVars>>

NextClassify == Classify \/ NextCommand

SpecClassify == InitClassify /\ [][NextClassify]_vars

---------------------------------------------------------------------------
(* The execution engine *)

\* timeout=30 of subprocess.run, in seconds
Timeout == 30

\* seconds between two observations of a running child
TickSeconds == 10

\* "if command.startswith("aws "): command = command[4:]"
StripAwsPrefix(command) ==
    IF startswith(command, "aws ") THEN SliceFrom(command, 4) ELSE command

\* BaseCommand with the region before the profile
BaseCommandRegionFirst(profile, region) ==
    <<"aws">>
    \o (IF Truthy(region) THEN <<"--region", Val(region)>> ELSE <<>>)
    \o (IF Truthy(profile) THEN <<"--profile", Val(profile)>> ELSE <<>>)

\* full_command before the command parts are added
BaseCommand(profile, region) ==
    <<"aws">>
    \o (IF Truthy(profile) THEN <<"--profile", Val(profile)>> ELSE <<>>)
    \o (IF Truthy(region) THEN <<"--region", Val(region)>> ELSE <<>>)

\* AWSMCPServer.execute_aws_command up to subprocess.run: the argument
\* vector, or the failure that shlex.split's ValueError becomes
execute_aws_command(command, profile, region) ==
    LET command_parts == shlex_split(StripAwsPrefix(command))
    IN  IF ~command_parts.ok
        THEN [ok |-> FALSE, full_command |-> <<>>,
              output |-> "Invalid command syntax: " \o command_parts.error]
        ELSE [ok |-> TRUE,
              full_command |-> BaseCommand(profile, region) \o command_parts.parts,
              output |-> ""]

\* AWSMCPHTTPServer.execute_aws_command up to subprocess.run
http_execute_aws_command(command, profile, region) ==
    [ok |-> TRUE,
     full_command |-> BaseCommand(profile, region) \o split(StripAwsPrefix(command)),
     output |-> ""]

\* what the child process can write and return
Stdouts == {"", "2024-01-01 my-bucket\n"}
Stderrs == {"", "usage: aws [options] <command>\n"}
ReturnCodes == {0, 255}

\* str(e) of the OSError that subprocess.run raises when aws is not on PATH
LaunchErrors == {"[Errno 2] No such file or directory: 'aws'"}

\* ExitResult whose failure message carries the standard output too
ExitResultWithStdout(returncode, stdout, stderr) ==
    IF returncode = 0
    THEN [success |-> TRUE, output |-> stdout]
    ELSE [success |-> FALSE, output |-> "Command failed: " \o stdout \o stderr]

\* "return True, result.stdout" / "return False, f"Command failed: ...""
ExitResult(returncode, stdout, stderr) ==
    IF returncode = 0
    THEN [success |-> TRUE, output |-> stdout]
    ELSE [success |-> FALSE, output |-> "Command failed: " \o stderr]

\* the timeout reported as a success with no output
TimeoutResultSuccess == [success |-> TRUE, output |-> ""]

\* "except subprocess.TimeoutExpired: return False, ..."
TimeoutResult ==
    [success |-> FALSE, output |-> "Command timed out after 30 seconds"]

\* LaunchErrorResult without the text of the error
LaunchErrorResultNoText(e) ==
    [success |-> FALSE, output |-> "Error executing command"]

\* "except Exception as e: return False, ..."
LaunchErrorResult(e) ==
    [success |-> FALSE, output |-> "Error executing command: " \o e]

---------------------------------------------------------------------------
(* Requests *)

ReadTool == "execute_aws_read_command"
WriteTool == "execute_aws_write_command"
ExecTools == {ReadTool, WriteTool}

\* most tokens of a generated command text of a request
MaxCmdTokens == 1

CmdWords == { "aws", "s3", "ls", "mb", "\"a b\"", "'x" }

\* texts of the specification's examples and of edge cases of the parsing
CmdExamples ==
    { "", "   ", "AWS s3 ls", " aws s3 ls", "aws s3 ls", "aws s3 mb s3://b",
      "s3 ls", "s3\tls", "aws  s3 ls", "s3 mb \"a b\"", "s3 ls 'x",
      "--query list iam delete-user", "sts get-caller-identity",
      "s3api put-object --body '{\"k\": 1}'", "s3 ls a\\ b", "s3 ls x\\",
      "s3api get-object --key \"a b", "s3 head  x", "iam create-user" }

CmdTexts == Plain(CmdWords, MaxCmdTokens) \cup CmdExamples

Profiles == {None, Some(""), Some("prod")}
Regions == {None, Some("us-east-1")}

\* the arguments object of a tools/call request
ArgumentsObjects ==
    {[command |-> c, profile |-> p, region |-> r] :
        c \in CmdTexts, p \in Profiles, r \in Regions}

NotReadOnlyMessage(command) ==
    "Error: Command '" \o command
    \o "' is not a read-only operation. Use execute_aws_write_command instead."

ReadOnlyMessage(command) ==
    "Error: Command '" \o command
    \o "' is a read-only operation. Use execute_aws_read_command instead."

NoCommandMessage == "Error: No command provided"

\* a read tool that validates the first request only
read_gate_rejects_first_only(is_read_only) == ~is_read_only /\ ~served

\* "if not self._is_read_only_command(command)": the read tool refuses
read_gate_rejects(is_read_only) == ~is_read_only

\* a write tool that validates nothing
write_gate_never(is_read_only) == FALSE

\* a write tool that refuses every command
write_gate_always(is_read_only) == TRUE

\* "if self._is_read_only_command(command)": the write tool refuses
write_gate_rejects(is_read_only) == is_read_only

\* the request is answered with text and no child was launched
Answer(kind, text) ==
    /\ pc' = "done"
    /\ reply' = Some([kind |-> kind, text |-> text])
    /\ full_command' = None
    /\ exec_result' = None
    /\ UNCHANGED <<child, launched, elapsed, result, osVars, served>>

\* the rest of execute_aws_command, from the built vector on: the failure
\* of the tokenization, the failure of the launch, or a running child
Execute(built) ==
    IF ~built.ok
    THEN /\ pc' = "done"
         /\ exec_result' = Some([success |-> FALSE, output |-> built.output])
         /\ reply' = Some([kind |-> "text", text |-> built.output])
         /\ full_command' = None
         /\ UNCHANGED <<child, launched, elapsed, result, osVars, served>>
    ELSE \/ /\ aws_on_path
            /\ pc' = "waiting"
            /\ full_command' = Some(built.full_command)
            /\ child' = "running"
            /\ launched' = launched + 1
            /\ elapsed' = 0
            /\ live_children' = live_children + 1
            /\ open_pipes' = open_pipes + 2
            /\ UNCHANGED <<result, exec_result, reply, served>>
         \/ \E e \in LaunchErrors :
            /\ ~aws_on_path
            /\ pc' = "done"
            /\ full_command' = Some(built.full_command)
            /\ exec_result' = Some(LaunchErrorResult(e))
            /\ reply' = Some([kind |-> "text", text |-> LaunchErrorResult(e).output])
            /\ launched' = launched + 1
            /\ UNCHANGED <<child, elapsed, result, osVars, served>>

\* handle_call_tool of the stdio server, tools execute_aws_read_command and
\* execute_aws_write_command
handle_call_tool ==
    /\ pc = "idle"
    /\ \E n \in ExecTools, args \in {None} \cup {Some(a) : a \in ArgumentsObjects} :
        /\ entry' = "stdio"
        /\ name' = n
        /\ arguments' = args
        /\ IF args = None
           THEN \* arguments.get raises AttributeError
                Answer("raised", "'NoneType' object has no attribute 'get'")
           ELSE LET command == Val(args).command
                    profile == Val(args).profile
                    region == Val(args).region
                IN  IF command = ""
                    THEN Answer("text", NoCommandMessage)
                    ELSE IF /\ n = ReadTool
                            /\ read_gate_rejects(_is_read_only_command(command))
                    THEN Answer("text", NotReadOnlyMessage(command))
                    ELSE IF /\ n = WriteTool
                            /\ write_gate_rejects(_is_read_only_command(command))
                    THEN Answer("text", ReadOnlyMessage(command))
                    ELSE Execute(execute_aws_command(command, profile, region))
    /\ UNCHANGED <<read_only_prefixes, startVars, aws_on_path, loopVars, clsVars>>

\* the FastMCP tools execute_aws_read_command and execute_aws_write_command
\* of the HTTP server
fastmcp_tool ==
    /\ pc = "idle"
    /\ \E n \in ExecTools, a \in ArgumentsObjects :
        /\ entry' = "fastmcp"
        /\ name' = n
        /\ arguments' = Some(a)
        /\ IF a.command = ""
           THEN Answer("text", NoCommandMessage)
           ELSE IF /\ n = ReadTool
                   /\ read_gate_rejects(http_is_read_only_command(a.command))
           THEN Answer("text", NotReadOnlyMessage(a.command))
           ELSE IF /\ n = WriteTool
                   /\ write_gate_rejects(http_is_read_only_command(a.command))
           THEN Answer("text", ReadOnlyMessage(a.command))
           ELSE Execute(http_execute_aws_command(a.command, a.profile, a.region))
    /\ UNCHANGED <<read_only_prefixes, startVars, aws_on_path, loopVars, clsVars>>

\* handle_mcp_request of the HTTP server (POST /), method tools/call, tools
\* execute_aws_read_command and execute_aws_write_command
handle_mcp_request ==
    /\ pc = "idle"
    /\ \E n \in ExecTools, args \in {None} \cup {Some(a) : a \in ArgumentsObjects} :
        /\ entry' = "http_post"
        /\ name' = n
        /\ arguments' = args
        /\ IF args = None
           THEN \* arguments.get raises; the handler's except answers
                Answer("error", "Internal error: 'NoneType' object has no attribute 'get'")
           ELSE LET command == Val(args).command
                    is_read_only == http_is_read_only_command(command)
                IN  IF n = ReadTool /\ read_gate_rejects(is_read_only)
                    THEN Answer("text", NotReadOnlyMessage(command))
                    ELSE IF n = WriteTool /\ write_gate_rejects(is_read_only)
                    THEN Answer("text", ReadOnlyMessage(command))
                    ELSE Execute(http_execute_aws_command(
                                    command, Val(args).profile, Val(args).region))
    /\ UNCHANGED <<read_only_prefixes, startVars, aws_on_path, loopVars, clsVars>>

\* a clock that stops short of the timeout
TickStalls ==
    /\ pc = "waiting"
    /\ elapsed < Timeout
    /\ elapsed' = IF elapsed + TickSeconds < Timeout
                  THEN elapsed + TickSeconds ELSE elapsed
    /\ UNCHANGED <<read_only_prefixes, startVars, aws_on_path, loopVars, clsVars, pc,
                   entry, name, arguments, full_command, child, launched,
                   result, exec_result, reply, osVars, served>>

\* time passes while subprocess.run waits for the child
Tick ==
    /\ pc = "waiting"
    /\ elapsed < Timeout
    /\ elapsed' = IF elapsed + TickSeconds < Timeout
                  THEN elapsed + TickSeconds ELSE Timeout
    /\ UNCHANGED <<read_only_prefixes, startVars, aws_on_path, loopVars, clsVars, pc,
                   entry, name, arguments, full_command, child, launched,
                   result, exec_result, reply, osVars, served>>

\* the child exits before the timeout; subprocess.run returns
ChildExit ==
    /\ pc = "waiting"
    /\ elapsed < Timeout
    /\ \E rc \in ReturnCodes, out \in Stdouts, err \in Stderrs :
        /\ result' = Some([returncode |-> rc, stdout |-> out, stderr |-> err])
        /\ exec_result' = Some(ExitResult(rc, out, err))
        /\ reply' = Some([kind |-> "text", text |-> ExitResult(rc, out, err).output])
    /\ child' = "exited"
    /\ elapsed' = 0
    /\ pc' = "done"
    /\ live_children' = live_children - 1
    /\ open_pipes' = open_pipes - 2
    /\ UNCHANGED <<read_only_prefixes, startVars, aws_on_path, loopVars, clsVars, entry,
                   name, arguments, full_command, launched, served>>

\* TimeoutExpired that runs the command once more instead of returning
TimeoutExpiredRetry ==
    /\ pc = "waiting"
    /\ elapsed = Timeout
    /\ launched < 2
    /\ launched' = launched + 1
    /\ elapsed' = 0
    /\ UNCHANGED <<read_only_prefixes, startVars, aws_on_path, loopVars, clsVars, pc, entry,
                   name, arguments, full_command, child, result, exec_result,
                   reply, osVars, served>>

\* TimeoutExpired that leaves the child running and its pipes open
TimeoutExpiredNoKill ==
    /\ pc = "waiting"
    /\ elapsed = Timeout
    /\ exec_result' = Some(TimeoutResult)
    /\ reply' = Some([kind |-> "text", text |-> TimeoutResult.output])
    /\ elapsed' = 0
    /\ pc' = "done"
    /\ UNCHANGED <<read_only_prefixes, startVars, aws_on_path, loopVars, clsVars, entry,
                   name, arguments, full_command, child, launched, result,
                   osVars, served>>

\* the timeout passes: subprocess.run kills the child, waits for it, closes
\* its pipes and raises TimeoutExpired
TimeoutExpired ==
    /\ pc = "waiting"
    /\ elapsed = Timeout
    /\ child' = "killed"
    /\ exec_result' = Some(TimeoutResult)
    /\ reply' = Some([kind |-> "text", text |-> TimeoutResult.output])
    /\ elapsed' = 0
    /\ pc' = "done"
    /\ live_children' = live_children - 1
    /\ open_pipes' = open_pipes - 2
    /\ UNCHANGED <<read_only_prefixes, startVars, aws_on_path, loopVars, clsVars, entry,
                   name, arguments, full_command, launched, result, served>>

\* the reply is handed to the transport; the server is ready for the next
\* request
Return ==
    /\ pc = "done"
    /\ pc' = "idle"
    /\ entry' = "none"
    /\ name' = "none"
    /\ arguments' = None
    /\ full_command' = None
    /\ child' = "none"
    /\ launched' = 0
    /\ elapsed' = 0
    /\ result' = None
    /\ exec_result' = None
    /\ reply' = None
    /\ served' = TRUE
    /\ UNCHANGED <<read_only_prefixes, startVars, aws_on_path, loopVars, clsVars, osVars>>

ListTool == "list_aws_profiles"
FixTool == "fix_aws_command_error"

\* a listing that takes the profiles out of the store
list_aws_profiles_consuming ==
    /\ pc = "idle"
    /\ stage.stdio = "serving"
    /\ entry' = "stdio"
    /\ name' = ListTool
    /\ arguments' = None
    /\ Answer("text", list_aws_profiles_text(aws_profiles.stdio))
    /\ aws_profiles' = [aws_profiles EXCEPT !.stdio = <<>>]
    /\ UNCHANGED <<read_only_prefixes, BOTO3_AVAILABLE, stage, aws_on_path,
                   loopVars, clsVars>>

\* handle_call_tool of the stdio server, tool list_aws_profiles
handle_call_tool_list_aws_profiles ==
    /\ pc = "idle"
    /\ stage.stdio = "serving"
    /\ entry' = "stdio"
    /\ name' = ListTool
    /\ arguments' = None
    /\ Answer("text", list_aws_profiles_text(aws_profiles.stdio))
    /\ UNCHANGED <<read_only_prefixes, startVars, aws_on_path, loopVars, clsVars>>

\* the FastMCP tool list_aws_profiles of the HTTP server
fastmcp_list_aws_profiles ==
    /\ pc = "idle"
    /\ stage.http = "serving"
    /\ entry' = "fastmcp"
    /\ name' = ListTool
    /\ arguments' = None
    /\ Answer("text", fastmcp_list_aws_profiles_text(aws_profiles.http))
    /\ UNCHANGED <<read_only_prefixes, startVars, aws_on_path, loopVars, clsVars>>

\* handle_mcp_request of the HTTP server (POST /), method tools/call, tool
\* list_aws_profiles
handle_mcp_request_list_aws_profiles ==
    /\ pc = "idle"
    /\ stage.http = "serving"
    /\ entry' = "http_post"
    /\ name' = ListTool
    /\ arguments' = None
    /\ Answer("text", post_list_aws_profiles_text(aws_profiles.http))
    /\ UNCHANGED <<read_only_prefixes, startVars, aws_on_path, loopVars, clsVars>>

\* the arguments object of a fix_aws_command_error request
RepairArguments ==
    {[failed_command |-> f, error_message |-> e, intent_description |-> d,
      profile |-> p] :
        f \in {"", "s3 lss"}, e \in {"", "Invalid choice"},
        d \in {"", "list buckets"}, p \in Profiles}

\* the markdown fence of three backquotes; a string of this module cannot
\* hold a backquote, so the fence is written with tildes
Fence == "~~~"

\* what the Bedrock call can come to: the text of the model's answer, or an
\* exception of boto3
BedrockOutcomes ==
    {[raised |-> FALSE, text |-> t] :
        t \in {"s3 ls", Fence \o "\ns3 ls\n" \o Fence, "# fixed\n  s3 ls", "", "#"}}
    \cup {[raised |-> TRUE, text |-> "AccessDeniedException"]}

RECURSIVE FirstCommandLine(_, _)
\* "for line in lines: line = line.strip(); if line and not ...: return line"
\* and "return fixed_command" after the loop
FirstCommandLine(lines, fixed_command) ==
    IF lines = <<>> THEN fixed_command
    ELSE LET line == strip(Head(lines))
         IN  IF line # "" /\ ~startswith(line, "#") /\ ~startswith(line, Fence)
             THEN line
             ELSE FirstCommandLine(Tail(lines), fixed_command)

Boto3RequiredMessage ==
    "Error: boto3 is required for Bedrock integration. Install with: pip install boto3"

\* AWSMCPServer.fix_aws_command_with_bedrock, given what the Bedrock call
\* comes to when it is made
fix_aws_command_with_bedrock(outcome) ==
    IF BOTO3_AVAILABLE # Some(TRUE) THEN Boto3RequiredMessage
    ELSE IF outcome.raised
    THEN "Error: Could not fix command with Bedrock: " \o outcome.text
    ELSE FirstCommandLine(split_on(strip(outcome.text), "\n"), strip(outcome.text))

RepairRequiredMessage ==
    "Error: failed_command, error_message, and intent_description are required"

\* handle_call_tool of the stdio server, tool fix_aws_command_error
handle_call_tool_fix_aws_command_error ==
    /\ pc = "idle"
    /\ stage.stdio = "serving"
    /\ \E args \in {None} \cup {Some(a) : a \in RepairArguments} :
        /\ entry' = "stdio"
        /\ name' = FixTool
        /\ arguments' = args
        /\ IF args = None
           THEN \* arguments.get raises AttributeError
                Answer("raised", "'NoneType' object has no attribute 'get'")
           ELSE IF \/ Val(args).failed_command = ""
                   \/ Val(args).error_message = ""
                   \/ Val(args).intent_description = ""
           THEN Answer("text", RepairRequiredMessage)
           ELSE \E outcome \in BedrockOutcomes :
                    Answer("text", "Suggested fix: "
                                   \o fix_aws_command_with_bedrock(outcome))
    /\ UNCHANGED <<read_only_prefixes, startVars, aws_on_path, loopVars, clsVars>>

Init ==
    /\ InitServers
    /\ aws_on_path \in BOOLEAN
    /\ cls_command = ""
    /\ cls_server = "stdio"
    /\ cls_result = None
    /\ cls_calls = 0
    /\ IdleRequest
    /\ IdleLoop

Next ==
    \/ handle_call_tool
    \/ fastmcp_tool
    \/ handle_mcp_request
    \/ handle_call_tool_list_aws_profiles
    \/ fastmcp_list_aws_profiles
    \/ handle_mcp_request_list_aws_profiles
    \/ handle_call_tool_fix_aws_command_error
    \/ Tick
    \/ ChildExit
    \/ TimeoutExpired
    \/ Return

Spec == Init /\ [][Next]_vars

\* Time passes while subprocess.run waits, subprocess.run acts on its
\* timeout, and a handler that has its text returns it: the wall clock and
\* the event loop do not stop.  Nothing is assumed of the child: it need
\* never exit.
Fairness ==
    /\ WF_vars(Tick)
    /\ WF_vars(TimeoutExpired)
    /\ WF_vars(Return)

SpecLive == Spec /\ Fairness

---------------------------------------------------------------------------
(* The start of the two servers, followed by their tools that do not run a
   command.  Each server is a process of its own: python imports the module,
   main() constructs the server object, run() serves. *)

\* python executes the top of aws_mcp_server.py: "try: import boto3 ...
\* except ImportError: BOTO3_AVAILABLE = False; logger.warning(...)".
\* logger is bound further down, so the handler raises NameError and the
\* import ends there.
import_aws_mcp_server ==
    /\ stage.stdio = "not_started"
    /\ \E installed \in BOOLEAN :
        /\ BOTO3_AVAILABLE' = Some(installed)
        /\ stage' = [stage EXCEPT !.stdio = IF installed THEN "imported"
                                                        ELSE "failed"]
    /\ UNCHANGED <<read_only_prefixes, aws_profiles, aws_on_path, loopVars,
                   clsVars, reqVars>>

\* AWSMCPServer.__init__, then run()
AWSMCPServer_init ==
    /\ stage.stdio = "imported"
    /\ read_only_prefixes' =
            [read_only_prefixes EXCEPT !.stdio = _get_read_only_prefixes]
    /\ \E config \in ConfigFiles :
            aws_profiles' = [aws_profiles EXCEPT !.stdio = _load_aws_profiles(config)]
    /\ stage' = [stage EXCEPT !.stdio = "serving"]
    /\ UNCHANGED <<BOTO3_AVAILABLE, aws_on_path, loopVars, clsVars, reqVars>>

\* python executes the top of aws_mcp_http_server.py, which imports no
\* optional package
import_aws_mcp_http_server ==
    /\ stage.http = "not_started"
    /\ stage' = [stage EXCEPT !.http = "imported"]
    /\ UNCHANGED <<read_only_prefixes, aws_profiles, BOTO3_AVAILABLE,
                   aws_on_path, loopVars, clsVars, reqVars>>

\* AWSMCPHTTPServer.__init__, then uvicorn.run
AWSMCPHTTPServer_init ==
    /\ stage.http = "imported"
    /\ read_only_prefixes' =
            [read_only_prefixes EXCEPT !.http = http_get_read_only_prefixes]
    /\ \E config \in ConfigFiles :
            aws_profiles' = [aws_profiles EXCEPT !.http = http_load_aws_profiles(config)]
    /\ stage' = [stage EXCEPT !.http = "serving"]
    /\ UNCHANGED <<BOTO3_AVAILABLE, aws_on_path, loopVars, clsVars, reqVars>>

\* neither process has been started
InitStartup ==
    /\ read_only_prefixes = [stdio |-> <<>>, http |-> <<>>]
    /\ aws_profiles = [stdio |-> <<>>, http |-> <<>>]
    /\ BOTO3_AVAILABLE = None
    /\ stage = [stdio |-> "not_started", http |-> "not_started"]
    /\ aws_on_path = FALSE
    /\ cls_command = ""
    /\ cls_server = "stdio"
    /\ cls_result = None
    /\ cls_calls = 0
    /\ IdleRequest
    /\ IdleLoop

NextStartup ==
    \/ import_aws_mcp_server
    \/ AWSMCPServer_init
    \/ import_aws_mcp_http_server
    \/ AWSMCPHTTPServer_init
    \/ handle_call_tool_list_aws_profiles
    \/ fastmcp_list_aws_profiles
    \/ handle_mcp_request_list_aws_profiles
    \/ handle_call_tool_fix_aws_command_error
    \/ Return

SpecStartup == InitStartup /\ [][NextStartup]_vars

---------------------------------------------------------------------------
(* Operations issued concurrently to one server.  Every handler is an
   "async def" run by the one event loop of the server; execute_aws_command
   calls subprocess.run, which does not await: it keeps the loop's thread
   until the child has exited or the timeout has passed. *)

\* what an operation does: run a command, refuse one at the gate, or list
\* the profiles
OpKinds == {"execute", "gate_rejection", "list_aws_profiles"}

\* a caller sends a request; the transport holds it until the loop runs it
Issue(i) ==
    /\ ops[i].state = "not_issued"
    /\ \E k \in OpKinds : ops' = [ops EXCEPT ![i] = [kind |-> k, state |-> "pending"]]
    /\ UNCHANGED <<read_only_prefixes, startVars, aws_on_path, clsVars, reqVars,
                   loop_thread, waited>>

\* the event loop runs the handler of a pending operation: to its return
\* when it launches nothing, into subprocess.run when it executes a command
RunHandler(i) ==
    /\ loop_thread = 0
    /\ ops[i].state = "pending"
    /\ IF ops[i].kind = "execute"
       THEN /\ ops' = [ops EXCEPT ![i].state = "waiting"]
            /\ loop_thread' = i
            /\ waited' = 0
       ELSE /\ ops' = [ops EXCEPT ![i].state = "done"]
            /\ UNCHANGED <<loop_thread, waited>>
    /\ UNCHANGED <<read_only_prefixes, startVars, aws_on_path, clsVars, reqVars>>

\* time passes inside subprocess.run
LoopTick ==
    /\ loop_thread # 0
    /\ waited < Timeout
    /\ waited' = IF waited + TickSeconds < Timeout
                 THEN waited + TickSeconds ELSE Timeout
    /\ UNCHANGED <<read_only_prefixes, startVars, aws_on_path, clsVars, reqVars,
                   ops, loop_thread>>

\* subprocess.run returns (the child exited) or raises TimeoutExpired; the
\* handler returns and the loop is free again
RunReturns(i) ==
    /\ loop_thread = i
    /\ ops[i].state = "waiting"
    /\ ops' = [ops EXCEPT ![i].state = "done"]
    /\ loop_thread' = 0
    /\ waited' = 0
    /\ UNCHANGED <<read_only_prefixes, startVars, aws_on_path, clsVars, reqVars>>

\* the callers have their replies and issue new operations
NextRound ==
    /\ \A i \in OpIds : ops[i].state = "done"
    /\ ops' = [i \in OpIds |-> [kind |-> "none", state |-> "not_issued"]]
    /\ UNCHANGED <<read_only_prefixes, startVars, aws_on_path, clsVars, reqVars,
                   loop_thread, waited>>

InitConcurrent ==
    /\ InitServers
    /\ aws_on_path = TRUE
    /\ cls_command = ""
    /\ cls_server = "stdio"
    /\ cls_result = None
    /\ cls_calls = 0
    /\ IdleRequest
    /\ IdleLoop

NextConcurrent ==
    \/ \E i \in OpIds : Issue(i)
    \/ \E i \in OpIds : RunHandler(i)
    \/ LoopTick
    \/ \E i \in OpIds : RunReturns(i)
    \/ NextRound

SpecConcurrent == InitConcurrent /\ [][NextConcurrent]_vars

---------------------------------------------------------------------------
(* Claims about the classifier, checked under SpecClassify *)

Classified == cls_result # None
ReadOnly == Val(cls_result) = TRUE
Mutating == Val(cls_result) = FALSE

\* the classifier of the server under test, applied to another text
ClassifyAgain(text) ==
    IF cls_server = "stdio" THEN _is_read_only_command(text)
    ELSE http_is_read_only_command(text)

BareVerbs == {"describe", "list", "get", "show", "view", "ls", "head"}
FallbackVerbs == {"describe", "list", "get", "show", "ls"}
InvocationName == "aws"

\* text without its first whitespace-separated token
DropFirstToken(text) ==
    LET t == lstrip(text)
    IN  SliceFrom(t, Len(split(t)[1]))

\* the normalization of the specification: lower-case, trim, drop one
\* leading invocation-name token
TokenNormalize(text) ==
    LET t == strip(lower(text))
    IN  IF split(t) # <<>> /\ split(t)[1] = InvocationName
        THEN strip(DropFirstToken(t))
        ELSE t

StartsWithPrefixEntry(t) ==
    \E i \in 1..Len(read_only_prefixes[cls_server]) :
        startswith(t, read_only_prefixes[cls_server][i])

SecondTokenStartsWith(t, verbs) ==
    /\ Len(split(t)) >= 2
    /\ \E v \in verbs : startswith(split(t)[2], v)

\* C3: a command text that, once normalized, neither starts with an entry of
\* the read-only prefix set nor has a second token starting with describe,
\* list, get, show or ls is classified Mutating.
C3_FailClosed ==
    Classified =>
        LET t == TokenNormalize(cls_command)
        IN  (~StartsWithPrefixEntry(t) /\ ~SecondTokenStartsWith(t, FallbackVerbs))
                => Mutating

C3_Witness ==
    /\ Classified /\ Mutating
    /\ cls_command \in {"s3 mb s3://test-bucket", "s3 cp file.txt s3://bucket/",
                        "ec2 create-instance", "iam create-user", "", "mb"}

BeginsWithVerb(text, v) ==
    LET t == lstrip(lower(text))
    IN  \/ startswith(t, v)
        \/ /\ startswith(t, InvocationName \o " ")
           /\ startswith(lstrip(SliceFrom(t, Len(InvocationName) + 1)), v)

C5_SecondTokenVerb ==
    Classified =>
        (SecondTokenStartsWith(lower(cls_command), FallbackVerbs) => ReadOnly)

C5_Witness ==
    /\ Classified /\ ReadOnly
    /\ cls_command = "x getaway-resource"
    /\ ~StartsWithPrefixEntry(cls_command)

\* the same text in another letter case or with whitespace around it
SameTextVariants(t) ==
    {upper(t), lower(t), " " \o t, t \o " ", "\t" \o t \o " \t"}

\* C6 as stated: classification is the same for a text, for the text in
\* another letter case, with whitespace added around it, and with one
\* leading invocation-name token added.
C6_Original ==
    Classified =>
        \A u \in SameTextVariants(cls_command) \cup {InvocationName \o " " \o cls_command} :
            ClassifyAgain(u) = Val(cls_result)

\* C6 amended: the leading invocation-name token may be added to a text
\* that does not itself begin with the invocation name and a space.
C6_NormalizedTextDecides ==
    Classified =>
        /\ \A u \in SameTextVariants(cls_command) :
                ClassifyAgain(u) = Val(cls_result)
        /\ ~startswith(strip(lower(cls_command)), InvocationName \o " ")
                => ClassifyAgain(InvocationName \o " " \o cls_command) = Val(cls_result)

C6_Witness ==
    /\ Classified /\ ReadOnly
    /\ cls_calls = MaxCalls
    /\ cls_command = "Aws S3 Ls"

---------------------------------------------------------------------------
(* Claims about the requests, checked under Spec *)

Handled == pc # "idle" /\ name \in ExecTools /\ arguments # None
Command == Val(arguments).command

\* the engine was called for the request: it built a vector or failed
Delegated == full_command # None \/ exec_result # None

\* no child process was launched for the request
NothingLaunched == launched = 0 /\ child = "none" /\ full_command = None

Replied(phrase) ==
    /\ pc = "done"
    /\ reply # None
    /\ Val(reply).kind = "text"
    /\ Contains(Val(reply).text, phrase)

\* C1: the read tool, called with a non-empty command that the classifier
\* rates Mutating, answers with a text containing "not a read-only
\* operation" and launches no child, at the three entry points.
C1_ReadToolRejectsMutating ==
    (Handled /\ name = ReadTool /\ Command # "" /\ ~_is_read_only_command(Command))
        => (Replied("not a read-only operation") /\ NothingLaunched)

C1_Witness ==
    /\ Handled /\ name = ReadTool /\ entry = "http_post"
    /\ Command = "aws s3 mb s3://b"
    /\ Replied("not a read-only operation")

\* C2: the write tool, called with a non-empty command that the classifier
\* rates ReadOnly, answers with a text containing "read-only operation"
\* and launches no child, at the three entry points.
C2_WriteToolRejectsReadOnly ==
    (Handled /\ name = WriteTool /\ Command # "" /\ _is_read_only_command(Command))
        => (Replied("read-only operation") /\ NothingLaunched)

C2_Witness ==
    /\ Handled /\ name = WriteTool /\ entry = "fastmcp"
    /\ Command = "s3 ls"
    /\ Replied("is a read-only operation")

\* a profile or a region is given when the argument is a non-empty string
Given(v) == v # None /\ Val(v) # ""
Flag(flag, v) == IF Given(v) THEN <<flag, Val(v)>> ELSE <<>>

\* the command parts the engine of the entry point adds for a text
CommandParts(text) ==
    IF entry = "stdio" THEN shlex_split(text).parts ELSE split(text)

\* the vector the engine of the entry point builds for another text
BuildAgain(text) ==
    IF entry = "stdio"
    THEN execute_aws_command(text, Val(arguments).profile, Val(arguments).region).full_command
    ELSE http_execute_aws_command(text, Val(arguments).profile, Val(arguments).region).full_command

\* C7: the launched vector is the base name, then --profile and the
\* profile if one is given, then --region and the region if one is given,
\* then the command's tokens; the command written after the invocation
\* name ("aws s3 ls") builds the vector of the command without it.
C7_ArgumentVectorOrder ==
    (Handled /\ full_command # None) =>
        LET v == Val(full_command)
            a == Val(arguments)
            np == Len(Flag("--profile", a.profile))
            nr == Len(Flag("--region", a.region))
            text == IF startswith(Command, "aws ") THEN SliceFrom(Command, 4)
                    ELSE Command
        IN  /\ v[1] = "aws"
            /\ SubSeq(v, 2, 1 + np) = Flag("--profile", a.profile)
            /\ SubSeq(v, 2 + np, 1 + np + nr) = Flag("--region", a.region)
            /\ SubSeq(v, 2 + np + nr, Len(v)) = CommandParts(text)
            /\ ~startswith(Command, "aws ") => BuildAgain("aws " \o Command) = v

C7_Witness ==
    /\ Handled /\ entry = "stdio" /\ pc = "waiting"
    /\ Command = "aws s3 ls"
    /\ Val(full_command) = <<"aws", "--profile", "prod", "--region", "us-east-1", "s3", "ls">>

\* the text ends inside a quotation
UnbalancedQuotes(text) ==
    shlex_split(StripAwsPrefix(text)).error = "No closing quotation"

\* C8: a command with unbalanced quotes that reaches the engine yields a
\* failure result and no child process, in both servers.
C8_UnbalancedQuotesFail ==
    (Handled /\ Delegated /\ UnbalancedQuotes(Command)) =>
        /\ NothingLaunched
        /\ exec_result # None
        /\ ~Val(exec_result).success

\* C9: the launched vector carries the command's tokens as shell-style
\* quoting delimits them, a quoted argument with spaces being one element,
\* in both servers.
C9_QuotedArgumentOneElement ==
    (Handled /\ full_command # None /\ shlex_split(StripAwsPrefix(Command)).ok) =>
        Val(full_command) =
            BaseCommand(Val(arguments).profile, Val(arguments).region)
            \o shlex_split(StripAwsPrefix(Command)).parts

TimedOut == exec_result = Some([success |-> FALSE,
                                output |-> "Command timed out after 30 seconds"])

\* C10: when the child is still running 30 seconds after its launch, the
\* next step returns the timeout failure and the child runs no more; the
\* timeout failure is returned in no other case.
C10_TimeoutKillsChild ==
    /\ [][(pc = "waiting" /\ child = "running" /\ elapsed = Timeout)
            => (pc' = "done" /\ TimedOut' /\ child' = "killed"
                /\ reply' = Some([kind |-> "text",
                                  text |-> "Command timed out after 30 seconds"]))]_vars
    /\ [](TimedOut => pc = "done" /\ child = "killed")
    /\ []((pc = "done" /\ child = "killed") => TimedOut)

C10_Witness == pc = "done" /\ child = "killed" /\ TimedOut /\ entry = "stdio"

\* the child exited before the timeout and subprocess.run returned
Exited == pc = "done" /\ child = "exited" /\ result # None

LaunchFailed == pc = "done" /\ full_command # None /\ child = "none"

\* C12: with the aws binary missing from PATH the server still serves
\* requests, and a call that reaches the launch returns the failure
\* "Error executing command: " followed by the text of the error; nothing
\* is raised and no child exists.
C12_LaunchErrorReported ==
    (~aws_on_path /\ Handled /\ full_command # None) =>
        /\ LaunchFailed
        /\ \E e \in LaunchErrors :
                exec_result = Some([success |-> FALSE,
                                    output |-> "Error executing command: " \o e])
        /\ Val(reply).kind = "text"
        /\ Val(reply).text = Val(exec_result).output

C12_Witness ==
    /\ ~aws_on_path /\ LaunchFailed /\ entry = "stdio"
    /\ Command = "s3 ls"
    /\ Contains(Val(reply).text, "No such file or directory")

\* C13: a call with an empty command text is answered at once with an error
\* text and launches no child process, for both tools at the three entry
\* points.
C13_EmptyCommandRejected ==
    (Handled /\ Command = "") =>
        /\ pc = "done"
        /\ NothingLaunched
        /\ Val(reply).kind = "text"
        /\ startswith(Val(reply).text, "Error")

\* C14: no call ends with an exception raised out of the handler, a call
\* without an arguments object included.
C14_NoFaultCrossesBoundary ==
    pc = "done" => Val(reply).kind # "raised"

\* the reply carries the standard output of a child that exited with code 0
RepliedStandardOutput ==
    /\ Exited
    /\ Val(exec_result).success
    /\ Val(reply).text = Val(result).stdout

\* C15: every text the two tools return is the command's standard output or
\* starts with "Error:", the failures of the engine included.
C15_ErrorPrefix ==
    (Handled /\ pc = "done" /\ Val(reply).kind = "text") =>
        (RepliedStandardOutput \/ startswith(Val(reply).text, "Error:"))

\* C16: while one operation waits for its child, any other operation that
\* was issued can be run by the server.
C16_WaitDoesNotBlockOthers ==
    \A i, j \in OpIds :
        (ops[i].state = "waiting" /\ ops[j].state = "pending")
            => ENABLED RunHandler(j)

\* C17: a call makes at most one launch: one when the tokenization
\* succeeded, none when it failed, and no further one after a failure, an
\* exit or a timeout.
C17_SingleLaunch ==
    /\ [](Handled => launched <= 1)
    /\ []((Handled /\ Delegated) =>
            launched = IF full_command # None THEN 1 ELSE 0)
    /\ [][launched' > launched => (pc = "idle" /\ launched' = 1)]_vars

C17_Witness ==
    /\ pc = "done" /\ child = "killed" /\ TimedOut /\ entry = "fastmcp"
    /\ launched = 1

\* the execution of the request has returned its result
Returned == pc = "done" /\ Delegated

\* C18: when the result is returned, on every exit path, the server has no
\* running child and no open pipe; between requests, after any number of
\* them, no child is alive.
C18_ResourcesReclaimed ==
    /\ Returned => (child # "running" /\ live_children = 0 /\ open_pipes = 0)
    /\ pc = "idle" => (live_children = 0 /\ open_pipes = 0)
    /\ pc = "waiting" => (live_children = 1 /\ open_pipes = 2)

C18_Witness ==
    /\ Returned /\ TimedOut /\ entry = "http_post"
    /\ served
    /\ child = "killed" /\ live_children = 0 /\ open_pipes = 0

\* C19: every call of the two tools comes to return a reply, through the
\* timeout when the child never exits, and the reply it has is not replaced
\* by another before it is returned.
C19_EveryCallReturns ==
    /\ (pc = "waiting") ~> (pc = "done" /\ reply # None)
    /\ (pc = "done") ~> (pc = "idle")
    /\ [](pc = "done" => reply # None)
    /\ [][reply # None => (reply' = reply \/ (pc = "done" /\ pc' = "idle"))]_vars

C19_Witness ==
    /\ pc = "done" /\ TimedOut /\ name = WriteTool /\ entry = "stdio"
    /\ Command = "aws s3 mb s3://b"

\* the classification of a text by the prefixes a server is constructed
\* with
FreshIsReadOnly(text) ==
    LET prefixes == IF entry = "stdio" THEN _get_read_only_prefixes
                    ELSE http_get_read_only_prefixes
    IN  MatchesPrefix(prefixes, Normalize(text)) \/ MatchesVerb(Normalize(text))

\* C20: whether a request passes the gate, and the vector built for it,
\* are decided by the request alone (tool, command, profile, region), the
\* same whether or not earlier requests were served; the prefix set is
\* never written.
C20_Stateless ==
    /\ read_only_prefixes =
            [stdio |-> _get_read_only_prefixes, http |-> http_get_read_only_prefixes]
    /\ Handled =>
            LET ro == FreshIsReadOnly(Command)
                refused == \/ name = ReadTool /\ ~ro
                           \/ name = WriteTool /\ ro
                empty == Command = "" /\ entry # "http_post"
            IN  /\ ~Delegated <=> (refused \/ empty)
                /\ full_command # None => Val(full_command) = BuildAgain(Command)

C20_Witness ==
    /\ served /\ Handled /\ Delegated
    /\ name = ReadTool /\ Command = "sts get-caller-identity"
    /\ Val(arguments).profile = Some("prod")
    /\ full_command # None

---------------------------------------------------------------------------
(* Further claims about the classifier, checked under SpecClassify *)

\* the command parts the engine of the server under test makes of a text:
\* the tokens, or the error of the tokenization
EngineParts(text) ==
    IF cls_server = "stdio"
    THEN LET r == shlex_split(StripAwsPrefix(text))
         IN  IF r.ok THEN r.parts ELSE <<"ValueError", r.error>>
    ELSE split(StripAwsPrefix(text))

\* C26: a text and the same text with single spaces between its tokens,
\* when the engine makes the same command parts of both, are classified
\* the same.
C26_SameVectorSameClass ==
    Classified =>
        LET u == Join(split(cls_command), " ")
        IN  EngineParts(u) = EngineParts(cls_command)
                => ClassifyAgain(u) = Val(cls_result)

\* some token from the k-th on starts with a verb
LaterTokenStartsWith(t, k, verbs) ==
    \E n \in k..Len(split(t)) : \E v \in verbs : startswith(split(t)[n], v)

\* C30: a text that starts with no entry of the prefix set and whose second
\* token starts with none of describe, list, get, show, ls is Mutating
\* when its second token starts with head or view, and when a read verb
\* appears only in its third or a later token.  The text is taken as the
\* code normalizes it and as the specification does.
C30_FallbackVerbsOnly ==
    Classified =>
        \A t \in {Normalize(cls_command), TokenNormalize(cls_command)} :
            ( /\ ~StartsWithPrefixEntry(t)
              /\ ~SecondTokenStartsWith(t, FallbackVerbs)
              /\ \/ SecondTokenStartsWith(t, {"head", "view"})
                 \/ LaterTokenStartsWith(t, 3, BareVerbs) )
                => Mutating

C30_Witness ==
    /\ Classified /\ Mutating
    /\ cls_command = "mb view ls"
    /\ SecondTokenStartsWith(cls_command, {"head", "view"})
    /\ LaterTokenStartsWith(cls_command, 3, FallbackVerbs)

---------------------------------------------------------------------------
(* Further claims about the requests, checked under Spec *)

\* the tokens of the launched vector that come after the base name and the
\* --profile and --region pairs
CommandTokens ==
    LET v == Val(full_command)
        a == Val(arguments)
        n == 1 + Len(Flag("--profile", a.profile)) + Len(Flag("--region", a.region))
    IN  SubSeq(v, n + 1, Len(v))

\* the classifier of the entry point
EntryIsReadOnly(text) ==
    IF entry = "stdio" THEN _is_read_only_command(text)
    ELSE http_is_read_only_command(text)

\* C25: the first command token of a vector launched through the read
\* tool does not start with "-".
C25_NoOptionInOperationPosition ==
    (Handled /\ name = ReadTool /\ full_command # None /\ CommandTokens # <<>>)
        => ~startswith(CommandTokens[1], "-")

\* C27: when the classifier removes a leading invocation name from a
\* command text, the first command token of the launched vector is not the
\* invocation name.
C27_EngineStripsWhatClassifierStrips ==
    (/\ Handled /\ full_command # None /\ CommandTokens # <<>>
     /\ startswith(strip(lower(Command)), InvocationName \o " "))
        => lower(CommandTokens[1]) # InvocationName

\* C28: for a non-empty command the read tool delegates exactly when the
\* classifier rates it ReadOnly and the write tool exactly when it does
\* not; the tool that does not delegate answers its mismatch text, and the
\* one that does hands the engine the request's command, profile and
\* region.
C28_ChannelsPartition ==
    (Handled /\ Command # "") =>
        LET ro == EntryIsReadOnly(Command)
        IN  /\ Delegated <=> (name = ReadTool <=> ro)
            /\ ~Delegated =>
                    Replied(IF name = ReadTool THEN "is not a read-only operation"
                            ELSE "is a read-only operation")
            /\ full_command # None => Val(full_command) = BuildAgain(Command)
            /\ (Delegated /\ full_command = None) =>
                    /\ entry = "stdio"
                    /\ ~shlex_split(StripAwsPrefix(Command)).ok

C28_Witness ==
    /\ Handled /\ Delegated /\ name = WriteTool /\ entry = "stdio"
    /\ Command = "iam create-user"
    /\ Val(arguments).region = Some("us-east-1")
    /\ Val(full_command) = <<"aws", "--region", "us-east-1", "iam", "create-user">>

\* C29: every launched vector has a command token after the base name and
\* the profile and region pairs.
C29_NeverBareBinary ==
    (Handled /\ full_command # None) => CommandTokens # <<>>

---------------------------------------------------------------------------
(* Claims about the profiles, the repair tool and the start of the servers *)

\* C21: no step of a serving server changes its loaded profiles or its
\* read-only prefixes, whatever the operations and their order.
C21_StoresImmutable ==
    [][\A s \in Servers :
          stage[s] = "serving" =>
              /\ aws_profiles'[s] = aws_profiles[s]
              /\ read_only_prefixes'[s] = read_only_prefixes[s]]_vars

C21_Witness ==
    /\ served
    /\ pc = "done"
    /\ name = ListTool
    /\ stage = [stdio |-> "serving", http |-> "serving"]
    /\ Len(aws_profiles.stdio) = 5
    /\ read_only_prefixes.stdio = _get_read_only_prefixes

\* a list_aws_profiles request has been answered
Listed == pc = "done" /\ name = ListTool /\ reply # None

\* the profiles of the server that answered
EntryProfiles ==
    IF entry = "stdio" THEN aws_profiles.stdio ELSE aws_profiles.http

\* C22: with no profile loaded, list_aws_profiles returns at every entry
\* point the text the stdio handler returns.
C22_SameNoProfilesMessage ==
    (Listed /\ EntryProfiles = <<>>) =>
        /\ Val(reply).kind = "text"
        /\ Val(reply).text = "No AWS profiles found in ~/.aws/config"

\* the lines of the listing
ReplyLines == split_on(Val(reply).text, "\n")

\* an option of a profile that is there and not empty
Has(option) == option # None /\ Val(option) # ""

\* the line the specification gives for a profile
ProfileLine(p) ==
    LET region == IF Has(p.info.region)
                  THEN " (region: " \o Val(p.info.region) \o ")" ELSE ""
        role == IF Has(p.info.role_arn)
                THEN " [role: " \o Val(p.info.role_arn) \o "]" ELSE ""
    IN  "Profile: " \o p.name \o region \o role

\* C23 as stated: with profiles loaded, the listing has as many lines as
\* there are profiles, and line i is the line of profile i.
C23_Original ==
    (Listed /\ EntryProfiles # <<>>) =>
        /\ Len(ReplyLines) = Len(EntryProfiles)
        /\ \A i \in DOMAIN EntryProfiles :
               ReplyLines[i] = ProfileLine(EntryProfiles[i])

\* C23: with profiles loaded, the listing is the line "Available AWS
\* profiles:" followed by one line per profile, in the order of the store:
\* "Profile: <name>", then " (region: <region>)" exactly when the profile
\* has a non-empty region, then " [role: <role>]" exactly when it has a
\* non-empty role.
C23_HeaderThenOneLinePerProfile ==
    (Listed /\ EntryProfiles # <<>>) =>
        /\ Len(ReplyLines) = 1 + Len(EntryProfiles)
        /\ ReplyLines[1] = "Available AWS profiles:"
        /\ \A i \in DOMAIN EntryProfiles :
               LET p == EntryProfiles[i]
                   line == ReplyLines[i + 1]
               IN  /\ line = ProfileLine(p)
                   /\ startswith(line, "Profile: " \o p.name)
                   /\ Contains(line, " (region: ") <=> Has(p.info.region)
                   /\ Contains(line, " [role: ") <=> Has(p.info.role_arn)

C23_Witness ==
    /\ Listed
    /\ entry = "fastmcp"
    /\ Len(EntryProfiles) = 5
    /\ ReplyLines = << "Available AWS profiles:",
                       "Profile: default (region: us-east-1)",
                       "Profile: dev (region: eu-west-1) [role: arn:dev]",
                       "Profile: ops [role: arn:ops]",
                       "Profile: bare",
                       "Profile: lab" >>

\* a fix_aws_command_error request with its three texts has been answered
Repaired ==
    /\ pc = "done" /\ name = FixTool /\ arguments # None
    /\ Val(arguments).failed_command # ""
    /\ Val(arguments).error_message # ""
    /\ Val(arguments).intent_description # ""

\* C24: when boto3 cannot be imported, the start of the stdio server does
\* not fail, and every repair request is answered with the fixed text
\* about boto3.
C24_RepairUnavailableFailsFast ==
    BOTO3_AVAILABLE = Some(FALSE) =>
        /\ stage.stdio # "failed"
        /\ Repaired => (reply # None /\ Val(reply).text = Boto3RequiredMessage)

=============================================================================
